---------------------------- MODULE Spec2Model ----------------------------
(***************************************************************************)
(* The method of successive averages of successive_averages.py:            *)
(* dijkstra and its helpers, the loop of run_MSA, evaluate_assignment.     *)
(*                                                                         *)
(* Numbers are exact rationals <<numerator, denominator>> in lowest terms  *)
(* with a positive denominator (the program computes in binary floating    *)
(* point; the model computes the same expressions without rounding error). *)
(* Nodes and edges are referred to by their position in N and E, which is  *)
(* the object identity the program's lists hold.                           *)
(***************************************************************************)
EXTENDS Integers, Sequences, FiniteSets, TLC

(***************************************************************************)
(* Bounds of the model.                                                    *)
(***************************************************************************)
MaxIts == 3
MaxDemand == 2

(***************************************************************************)
(* Rational arithmetic.                                                    *)
(***************************************************************************)
Abs(i) == IF i < 0 THEN 0 - i ELSE i

RECURSIVE Gcd(_, _)
Gcd(a, b) == IF b = 0 THEN a ELSE Gcd(b, a % b)

Norm(p, q) ==
    LET s == IF q < 0 THEN 0 - 1 ELSE 1
        g == Gcd(Abs(p), Abs(q))
    IN  <<(s * p) \div g, (s * q) \div g>>

R(i) == <<i, 1>>
RAdd(x, y) == Norm(x[1] * y[2] + y[1] * x[2], x[2] * y[2])
RSub(x, y) == Norm(x[1] * y[2] - y[1] * x[2], x[2] * y[2])
RMul(x, y) == Norm(x[1] * y[1], x[2] * y[2])
RDiv(x, y) == Norm(x[1] * y[2], x[2] * y[1])
RLt(x, y) == x[1] * y[2] < y[1] * x[2]
RLe(x, y) == x[1] * y[2] <= y[1] * x[2]
RMax(x, y) == IF RLt(x, y) THEN y ELSE x

\* Python's round(): the nearest integer, a tie to the even one.
RRound(x) ==
    LET f == x[1] \div x[2]
        r == 2 * (x[1] - f * x[2])
    IN  IF r < x[2] THEN f
        ELSE IF r > x[2] THEN f + 1
        ELSE IF f % 2 = 0 THEN f ELSE f + 1

(***************************************************************************)
(* Node and Edge.                                                          *)
(***************************************************************************)
None == 0

\* Node.dist after resetGraph
Sentinel == 1000000

\* "%s-%s" % (start, end)
EdgeName(start, end) == start \o "-" \o end

\* Edge.update_cost for the family of cost functions a + b*f of the flow f,
\* with the constants a and b bound to the edge.
update_cost(e) ==
    [e EXCEPT !.cost = RAdd(R(e.a), RMul(R(e.b), e.flow))]

\* Edge.__init__
NewEdge(start, end, a, b) ==
    update_cost([name |-> EdgeName(start, end), start |-> start, end |-> end,
                 a |-> a, b |-> b,
                 flow |-> R(0), cost |-> R(0), aux_flow |-> R(0)])

(***************************************************************************)
(* The shortest path.  The scratch fields dist, prev and flag of the nodes *)
(* are functions of the node's position; dijkstra resets them on entry, so *)
(* they carry nothing from one call to the next.                           *)
(***************************************************************************)
resetGraph(N) ==
    [dist |-> [i \in 1..Len(N) |-> R(Sentinel)],
     prev |-> [i \in 1..Len(N) |-> None],
     flag |-> [i \in 1..Len(N) |-> 0]]

RECURSIVE SmallestFrom(_, _, _, _)
SmallestFrom(N, st, i, minNode) ==
    IF i > Len(N) THEN minNode
    ELSE IF st.flag[i] = 0 /\ RLt(st.dist[i], st.dist[minNode])
         THEN SmallestFrom(N, st, i + 1, i)
         ELSE SmallestFrom(N, st, i + 1, minNode)

pickSmallestNode(N, st) ==
    LET unflagged == {i \in 1..Len(N) : st.flag[i] = 0}
    IN  IF unflagged = {} THEN None
        ELSE LET first == CHOOSE i \in unflagged : \A j \in unflagged : i <= j
             IN  SmallestFrom(N, st, 1, first)

pickEdgesList(uname, E) == SelectSeq([k \in 1..Len(E) |-> k], LAMBDA k : E[k].start = uname)

\* The node whose name is the given one (names are unique), None without one.
NodeNamed(N, nm) ==
    IF \E i \in 1..Len(N) : N[i] = nm
    THEN CHOOSE i \in 1..Len(N) : N[i] = nm
    ELSE None

\* The body of `for edge in uv` of dijkstra, from the k-th edge of uv on.
RECURSIVE Relax(_, _, _, _, _, _, _)
Relax(N, E, ignoredEdges, st, u, uv, k) ==
    IF k > Len(uv) THEN st
    ELSE LET edge == uv[k]
             n == NodeNamed(N, E[edge].end)
             d == RAdd(st.dist[u], E[edge].cost)
         IN  IF edge \in ignoredEdges
             THEN Relax(N, E, ignoredEdges, st, u, uv, k + 1)
             ELSE IF RLt(d, st.dist[n])
                  THEN Relax(N, E, ignoredEdges,
                             [st EXCEPT !.dist[n] = d, !.prev[n] = u], u, uv, k + 1)
                  ELSE Relax(N, E, ignoredEdges, st, u, uv, k + 1)

\* The `while u != None` loop of dijkstra.
RECURSIVE Settle(_, _, _, _, _, _)
Settle(N, E, ignoredEdges, dest, st, u) ==
    IF u = None THEN st
    ELSE LET flagged == [st EXCEPT !.flag[u] = 1]
             relaxed == Relax(N, E, ignoredEdges, flagged, u, pickEdgesList(N[u], E), 1)
             next == pickSmallestNode(N, relaxed)
         IN  IF next = dest THEN relaxed
             ELSE Settle(N, E, ignoredEdges, dest, relaxed, next)

\* The labels dijkstra leaves on the nodes.
Labels(N, E, origin, destination, ignoredEdges) ==
    LET st0 == resetGraph(N)
        st1 == [st0 EXCEPT !.dist = [i \in 1..Len(N) |->
                               IF N[i] = origin THEN R(0) ELSE st0.dist[i]]]
    IN  Settle(N, E, ignoredEdges, NodeNamed(N, destination), st1, pickSmallestNode(N, st1))

\* `while u.prev != None: S.insert(0, u); u = u.prev` and the final insert.
RECURSIVE WalkBack(_, _, _)
WalkBack(st, u, S) ==
    IF st.prev[u] /= None THEN WalkBack(st, st.prev[u], <<u>> \o S)
    ELSE <<u>> \o S

\* dijkstra: the node path S, for a destination that is a node of N (with
\* dest None the read of dest.prev faults: see RouteOD).
dijkstra(N, E, origin, destination, ignoredEdges) ==
    WalkBack(Labels(N, E, origin, destination, ignoredEdges), NodeNamed(N, destination), <<>>)

\* [edge for edge in E if edge.start == prev.name and edge.end == node.name][0]
FirstEdge(E, s, t) ==
    CHOOSE k \in 1..Len(E) :
        /\ E[k].start = s /\ E[k].end = t
        /\ \A j \in 1..(k - 1) : ~(E[j].start = s /\ E[j].end = t)

getPathAsEdges(N, P, E) == [i \in 1..(Len(P) - 1) |-> FirstEdge(E, N[P[i]], N[P[i + 1]])]

\* pathToStr of a non-empty edge path: the edge names joined by ' - '.
RECURSIVE pathToStr(_, _)
pathToStr(path, E) ==
    IF Len(path) = 1 THEN E[path[1]].name
    ELSE E[path[1]].name \o " - " \o pathToStr(Tail(path), E)


(***************************************************************************)
(* The networks the runs start from: node names in file order, directed    *)
(* edges in file order, OD pairs in file order (od names are "o|d").       *)
(***************************************************************************)
Topologies ==
    { [N |-> <<"A", "B">>,
       arcs |-> << <<"A", "B">> >>,
       ods |-> << <<"A", "B">> >>],
      [N |-> <<"A", "B", "C", "D">>,
       arcs |-> << <<"A", "B">>, <<"B", "D">>, <<"A", "C">>, <<"C", "D">> >>,
       ods |-> << <<"A", "D">> >>],
      [N |-> <<"A", "B", "C">>,
       arcs |-> << <<"A", "B">>, <<"B", "C">>, <<"A", "C">> >>,
       ods |-> << <<"A", "C">>, <<"B", "C">> >>],
      [N |-> <<"A", "B", "C">>,
       arcs |-> << <<"A", "B">> >>,
       ods |-> << <<"A", "B">>, <<"A", "C">> >>],
      [N |-> <<"A", "B">>,
       arcs |-> << <<"A", "B">>, <<"A", "B">> >>,
       ods |-> << <<"A", "B">> >>],
      [N |-> <<"A", "B">>,
       arcs |-> << <<"A", "B">> >>,
       ods |-> << <<"A", "Z">> >>] }

\* The constants <<a, b>> of the cost functions a + b*f.
CostParams == { <<1, 0>>, <<2, 0>>, <<0, 1>>, <<1, 2>> }

VARIABLES
    N,               \* node_list: the node names
    E,               \* edge_list: the Edge objects
    OD_matrix,       \* the OD pairs with their demands, in dictionary order
    its,             \* the number of iterations
    output,          \* the output flag
    n,               \* the loop variable of `for n in range(1, its+1)`
    phi,             \* the step size
    pc,              \* where run_MSA is: "loop", "aon", "blend", "update", "done", "fault"
    odi,             \* position of the running `for od in OD_matrix` loop
    od_routes_flow,  \* per OD pair, its routes in insertion order: route_str, route, flow
    min_routes,      \* per OD pair routed in this iteration: route_str, route
    fh,              \* the results file: "unbound", "open", "closed"
    report,          \* the overall results written to the file: <<>> or <<[UE, deviations, AEC]>>
    returned,        \* what run_MSA returned: <<>> or <<UE>>
    outcome          \* "running", "returned", or the exception that ended the run

vars == <<N, E, OD_matrix, its, output, n, phi, pc, odi, od_routes_flow, min_routes,
          fh, report, returned, outcome>>

Init ==
    \E t \in Topologies :
    \E params \in [1..Len(t.arcs) -> CostParams] :
    \E demand \in [1..Len(t.ods) -> 0..MaxDemand] :
        /\ N = t.N
        /\ E = [k \in 1..Len(t.arcs) |->
                   NewEdge(t.arcs[k][1], t.arcs[k][2], params[k][1], params[k][2])]
        /\ OD_matrix = [k \in 1..Len(t.ods) |->
                   [od |-> t.ods[k][1] \o "|" \o t.ods[k][2],
                    o |-> t.ods[k][1], d |-> t.ods[k][2], demand |-> R(demand[k])]]
        /\ its \in 1..MaxIts
        /\ output \in BOOLEAN
        /\ n = 0
        /\ phi = R(1)
        /\ pc = "loop"
        /\ odi = 1
        /\ od_routes_flow = [k \in 1..Len(t.ods) |-> <<>>]
        /\ min_routes = <<>>
        /\ fh = "unbound"
        /\ report = <<>>
        /\ returned = <<>>
        /\ outcome = "running"

(***************************************************************************)
(* run_MSA.                                                                *)
(***************************************************************************)
\* StepSize left at the initial value of phi.
StepSizeInitial(i) == R(1)

\* phi = 1.0 / n
StepSize(i) == RDiv(R(1), R(i))

\* Lines 337-348: the head of an iteration.
IterationStart ==
    /\ pc = "loop"
    /\ n < its
    /\ n' = n + 1
    /\ phi' = StepSize(n + 1)
    /\ E' = [k \in 1..Len(E) |-> [E[k] EXCEPT !.aux_flow = R(0)]]
    /\ min_routes' = <<>>
    /\ odi' = 1
    /\ pc' = "aon"
    /\ UNCHANGED <<N, OD_matrix, its, output, od_routes_flow, fh, report, returned, outcome>>

\* Does od_routes_flow[od] have the key route_str?
HasRoute(table, route_str) == \E i \in 1..Len(table) : table[i].route_str = route_str

\* AddRoute that starts the table of the OD pair afresh on a new route.
AddRouteAfresh(table, route_str, route) ==
    IF HasRoute(table, route_str) THEN table
    ELSE <<[route_str |-> route_str, route |-> route, flow |-> R(0)]>>

\* `if route_str not in od_routes_flow[od]: od_routes_flow[od][route_str] = [route, 0]`
AddRoute(table, route_str, route) ==
    IF HasRoute(table, route_str) THEN table
    ELSE Append(table, [route_str |-> route_str, route |-> route, flow |-> R(0)])

\* Lines 349-362: one pass of the all-or-nothing loop.
RouteOD ==
    /\ pc = "aon"
    /\ LET od == OD_matrix[odi]
       IN  IF NodeNamed(N, od.d) = None
           THEN \* dijkstra reads dest.prev with dest None
                /\ outcome' = "AttributeError"
                /\ pc' = "fault"
                /\ UNCHANGED <<od_routes_flow, min_routes, odi>>
           ELSE LET route == getPathAsEdges(N, dijkstra(N, E, od.o, od.d, {}), E)
                IN  IF route = <<>>
                    THEN \* pathToStr reads path[0] of an empty path
                         /\ outcome' = "IndexError"
                         /\ pc' = "fault"
                         /\ UNCHANGED <<od_routes_flow, min_routes, odi>>
                    ELSE LET route_str == pathToStr(route, E)
                         IN  /\ min_routes' = Append(min_routes,
                                     [route_str |-> route_str, route |-> route])
                             /\ od_routes_flow' = [od_routes_flow EXCEPT
                                     ![odi] = AddRoute(@, route_str, route)]
                             /\ odi' = IF odi = Len(OD_matrix) THEN 1 ELSE odi + 1
                             /\ pc' = IF odi = Len(OD_matrix) THEN "blend" ELSE "aon"
                             /\ UNCHANGED outcome
    /\ UNCHANGED <<N, E, OD_matrix, its, output, n, phi, fh, report, returned>>

\* Blend with the auxiliary flow subtracted and no clamp at 0.
BlendSignSlip(step, vna, fa) ==
    RSub(RMul(RSub(R(1), step), vna), RMul(step, fa))

\* Blend with the auxiliary flow not weighted by the step size.
BlendUnweighted(step, vna, fa) ==
    RMax(RAdd(RMul(RSub(R(1), step), vna), fa), R(0))

\* vna = max((1 - phi) * vna + phi * fa, 0)
Blend(step, vna, fa) ==
    RMax(RAdd(RMul(RSub(R(1), step), vna), RMul(step, fa)), R(0))

\* AddAux with `e.flow += vna` and the cost refreshed inside the blending loop.
RECURSIVE AddAuxAndFlow(_, _, _, _)
AddAuxAndFlow(edges, route, vna, i) ==
    IF i > Len(route) THEN edges
    ELSE AddAuxAndFlow([edges EXCEPT ![route[i]] =
                            update_cost([@ EXCEPT !.aux_flow = RAdd(@, vna),
                                                  !.flow = RAdd(@, vna)])],
                       route, vna, i + 1)

\* `for e in od_routes_flow[od][route][0]: e.aux_flow += vna`, from the i-th edge on.
RECURSIVE AddAux(_, _, _, _)
AddAux(edges, route, vna, i) ==
    IF i > Len(route) THEN edges
    ELSE AddAux([edges EXCEPT ![route[i]].aux_flow = RAdd(@, vna)], route, vna, i + 1)

\* The body of `for route in od_routes_flow[od]`, from the i-th route on:
\* the table and the edges after it.
RECURSIVE BlendRoutes(_, _, _, _, _, _)
BlendRoutes(table, edges, best, demand, step, i) ==
    IF i > Len(table) THEN [table |-> table, edges |-> edges]
    ELSE LET fa == IF table[i].route_str = best THEN demand ELSE R(0)
             vna == Blend(step, table[i].flow, fa)
         IN  BlendRoutes([table EXCEPT ![i].flow = vna],
                         AddAux(edges, table[i].route, vna, 1),
                         best, demand, step, i + 1)

\* Lines 365-382: one pass of the blending loop.
BlendOD ==
    /\ pc = "blend"
    /\ LET b == BlendRoutes(od_routes_flow[odi], E, min_routes[odi].route_str,
                            OD_matrix[odi].demand, phi, 1)
       IN  /\ od_routes_flow' = [od_routes_flow EXCEPT ![odi] = b.table]
           /\ E' = b.edges
    /\ odi' = IF odi = Len(OD_matrix) THEN 1 ELSE odi + 1
    /\ pc' = IF odi = Len(OD_matrix) THEN "update" ELSE "blend"
    /\ UNCHANGED <<N, OD_matrix, its, output, n, phi, min_routes, fh, report, returned, outcome>>

\* Lines 384-386: the flows and costs of the edges.
UpdateCosts ==
    /\ pc = "update"
    /\ E' = [k \in 1..Len(E) |-> update_cost([E[k] EXCEPT !.flow = E[k].aux_flow])]
    /\ pc' = "loop"
    /\ UNCHANGED <<N, OD_matrix, its, output, n, phi, odi, od_routes_flow, min_routes,
                   fh, report, returned, outcome>>

(***************************************************************************)
(* evaluate_assignment.                                                    *)
(***************************************************************************)
\* `for e in route: cost += e.cost`
RECURSIVE RouteCost(_, _, _)
RouteCost(edges, route, i) ==
    IF i > Len(route) THEN R(0)
    ELSE RAdd(edges[route[i]].cost, RouteCost(edges, route, i + 1))

\* cost = round(cost * 100) / 100
Round2(cost) == RDiv(R(RRound(RMul(cost, R(100)))), R(100))

\* aux of one OD pair: flow and rounded cost of each of its routes.
RouteCosts(edges, table) ==
    [i \in 1..Len(table) |->
        [flow |-> table[i].flow, cost |-> Round2(RouteCost(edges, table[i].route, 1))]]

\* min_cost of a non-empty aux
RECURSIVE MinCost(_, _)
MinCost(aux, i) ==
    IF i = Len(aux) THEN aux[i].cost
    ELSE LET m == MinCost(aux, i + 1)
         IN  IF RLt(m, aux[i].cost) THEN m ELSE aux[i].cost

\* The share of one OD pair in sum_tt: e.cost * flow over the edges of its routes.
RECURSIVE TravelTime(_, _, _)
TravelTime(edges, table, i) ==
    IF i > Len(table) THEN R(0)
    ELSE RAdd(RMul(RouteCost(edges, table[i].route, 1), table[i].flow),
              TravelTime(edges, table, i + 1))

\* The share of one OD pair in delta_top: flow * (cost - min_cost) over its routes.
RECURSIVE ExcessCost(_, _, _)
ExcessCost(aux, min_cost, i) ==
    IF i > Len(aux) THEN R(0)
    ELSE RAdd(RMul(aux[i].flow, RSub(aux[i].cost, min_cost)),
              ExcessCost(aux, min_cost, i + 1))

\* The share of one OD pair in sum_deviations: the flow of its routes dearer than min_cost.
RECURSIVE Deviations(_, _, _)
Deviations(aux, min_cost, i) ==
    IF i > Len(aux) THEN R(0)
    ELSE RAdd(IF RLt(min_cost, aux[i].cost) THEN aux[i].flow ELSE R(0),
              Deviations(aux, min_cost, i + 1))

\* The accumulators of `for od in od_routes_flow`, from the k-th OD pair on.
RECURSIVE Accumulate(_, _, _, _)
Accumulate(edges, tables, ODs, k) ==
    IF k > Len(tables)
    THEN [sum_tt |-> R(0), sum_deviations |-> R(0), delta_top |-> R(0), delta_bottom |-> R(0)]
    ELSE LET rest == Accumulate(edges, tables, ODs, k + 1)
             aux == RouteCosts(edges, tables[k])
             min_cost == IF aux = <<>> THEN R(0) ELSE MinCost(aux, 1)
         IN  [sum_tt |-> RAdd(TravelTime(edges, tables[k], 1), rest.sum_tt),
              sum_deviations |-> RAdd(Deviations(aux, min_cost, 1), rest.sum_deviations),
              delta_top |-> RAdd(ExcessCost(aux, min_cost, 1), rest.delta_top),
              delta_bottom |-> RAdd(ODs[k].demand, rest.delta_bottom)]

\* sum([x for x in OD_matrix.values()])
RECURSIVE TotalDemand(_, _)
TotalDemand(ODs, k) ==
    IF k > Len(ODs) THEN R(0) ELSE RAdd(ODs[k].demand, TotalDemand(ODs, k + 1))

\* Lines 389-391 and 393-475: the call of evaluate_assignment that ends run_MSA.
Evaluate ==
    /\ pc = "loop"
    /\ n = its
    /\ LET acc == Accumulate(E, od_routes_flow, OD_matrix, 1)
           total == TotalDemand(OD_matrix, 1)
           opened == IF output THEN "open" ELSE "unbound"
       IN  IF total = R(0)
           THEN \* line 463: sum_tt / 0
                /\ outcome' = "ZeroDivisionError"
                /\ fh' = opened
                /\ pc' = "fault"
                /\ UNCHANGED <<report, returned>>
           ELSE IF ~output
           THEN \* line 469: fh is assigned under `if output` only
                /\ outcome' = "UnboundLocalError"
                /\ fh' = opened
                /\ pc' = "fault"
                /\ UNCHANGED <<report, returned>>
           ELSE /\ report' = <<[UE |-> RDiv(acc.sum_tt, total),
                                deviations |-> acc.sum_deviations[1] \div acc.sum_deviations[2],
                                AEC |-> RDiv(acc.delta_top, acc.delta_bottom)]>>
                /\ fh' = "closed"
                /\ returned' = <<RDiv(acc.sum_tt, total)>>
                /\ outcome' = "returned"
                /\ pc' = "done"
    /\ UNCHANGED <<N, E, OD_matrix, its, output, n, phi, odi, od_routes_flow, min_routes>>

Next ==
    \/ IterationStart
    \/ RouteOD
    \/ BlendOD
    \/ UpdateCosts
    \/ Evaluate

Spec == Init /\ [][Next]_vars

(***************************************************************************)
(* Notions the properties are stated with, defined without the program's   *)
(* search.                                                                 *)
(***************************************************************************)
\* The node names a path of edges leads to from the names in S.
RECURSIVE ReachableFrom(_)
ReachableFrom(S) ==
    LET more == S \cup {E[k].end : k \in {j \in 1..Len(E) : E[j].start \in S}}
    IN  IF more = S THEN S ELSE ReachableFrom(more)

Connected(o, d) == d \in ReachableFrom({o})

\* The edge sequences that lead from o to d without visiting a node twice.
IsPath(p, o, d) ==
    /\ Len(p) >= 1
    /\ E[p[1]].start = o
    /\ E[p[Len(p)]].end = d
    /\ \A i \in 1..(Len(p) - 1) : E[p[i]].end = E[p[i + 1]].start
    /\ \A i, j \in 1..Len(p) : i < j => E[p[i]].end /= E[p[j]].end
    /\ \A i \in 1..Len(p) : E[p[i]].end /= o

Paths(o, d) ==
    {p \in UNION {[1..l -> 1..Len(E)] : l \in 1..(Len(N) - 1)} : IsPath(p, o, d)}

IsMinCost(c, o, d) ==
    /\ \E p \in Paths(o, d) : RouteCost(E, p, 1) = c
    /\ \A p \in Paths(o, d) : RLe(c, RouteCost(E, p, 1))

RECURSIVE FlowSum(_, _)
FlowSum(table, i) ==
    IF i > Len(table) THEN R(0) ELSE RAdd(table[i].flow, FlowSum(table, i + 1))

\* The OD pairs the all-or-nothing loop has got to (the one it faulted on included).
Processed(k) ==
    /\ n >= 1
    /\ pc = "aon" => k < odi
    /\ outcome \in {"IndexError", "AttributeError"} => k <= odi

\* evaluate_assignment has been called and has ended.
Evaluated == outcome \in {"returned", "ZeroDivisionError", "UnboundLocalError"}

\* The Average Excess Cost evaluate_assignment computes from edges and tables.
AECOf(edges, tables) ==
    LET acc == Accumulate(edges, tables, OD_matrix, 1)
    IN  RDiv(acc.delta_top, acc.delta_bottom)

\* The routes the all-or-nothing loop finds on the given edges, one per OD pair.
BestRoutes(edges) ==
    [k \in 1..Len(OD_matrix) |->
        getPathAsEdges(N, dijkstra(N, edges, OD_matrix[k].o, OD_matrix[k].d, {}), edges)]

\* The blending loop from the k-th OD pair on.
RECURSIVE BlendAll(_, _, _, _, _)
BlendAll(tables, edges, best, step, k) ==
    IF k > Len(tables) THEN [tables |-> tables, edges |-> edges]
    ELSE LET b == BlendRoutes(tables[k], edges, pathToStr(best[k], edges),
                              OD_matrix[k].demand, step, 1)
         IN  BlendAll([tables EXCEPT ![k] = b.table], b.edges, best, step, k + 1)

\* One whole iteration of run_MSA on a network where every destination is
\* reached: IterationStart, RouteOD and BlendOD for every OD pair, UpdateCosts.
RunIteration(S, i) ==
    LET cleared == [k \in 1..Len(S.E) |-> [S.E[k] EXCEPT !.aux_flow = R(0)]]
        best == BestRoutes(cleared)
        added == [k \in 1..Len(S.tables) |->
                     AddRoute(S.tables[k], pathToStr(best[k], cleared), best[k])]
        b == BlendAll(added, cleared, best, StepSize(i), 1)
    IN  [E |-> [k \in 1..Len(b.edges) |->
                   update_cost([b.edges[k] EXCEPT !.flow = b.edges[k].aux_flow])],
         tables |-> b.tables]

\* The edges and the tables of this network after i iterations.
RECURSIVE StateAfter(_)
StateAfter(i) ==
    IF i = 0
    THEN [E |-> [k \in 1..Len(E) |-> NewEdge(E[k].start, E[k].end, E[k].a, E[k].b)],
          tables |-> [k \in 1..Len(OD_matrix) |-> <<>>]]
    ELSE RunIteration(StateAfter(i - 1), i)

\* One OD pair of positive demand joined by the two routes A-B-D and A-C-D,
\* the cost of every edge strictly increasing in its flow.
ParallelIncreasing ==
    /\ Len(N) = 4 /\ Len(E) = 4 /\ Len(OD_matrix) = 1
    /\ \A k \in 1..Len(E) : E[k].b >= 1
    /\ RLt(R(0), OD_matrix[1].demand)

\* No cost of an edge depends on its flow.
ConstantCosts == \A k \in 1..Len(E) : E[k].b = 0

RECURSIVE SlopeSum(_)
SlopeSum(k) == IF k > Len(E) THEN 0 ELSE E[k].b + SlopeSum(k + 1)

\* aec is within [0, (sum of the slopes) * demand / i + 0.01].
WithinEnvelope(aec, i) ==
    /\ RLe(R(0), aec)
    /\ RLe(aec, RAdd(RDiv(RMul(R(SlopeSum(1)), OD_matrix[1].demand), R(i)), <<1, 100>>))

(***************************************************************************)
(* Properties.                                                             *)
(***************************************************************************)

\* C1: once run_MSA has got to an OD pair whose destination cannot be reached
\* from its origin over the edges, the run has ended with the named
\* unreachable-destination error: not with another fault, not with a result.
C1_UnreachableIsNamedError ==
    \A k \in 1..Len(OD_matrix) :
        (Processed(k) /\ ~Connected(OD_matrix[k].o, OD_matrix[k].d))
            => outcome = "UnreachableDestination"

\* C2: a step changes the flow or the cost of an edge only when the blending
\* loop has finished for all OD pairs; no step of the all-or-nothing loop or of
\* the blending loop changes either, so all OD pairs of an iteration are routed
\* on the same costs.
C2_CostsWrittenAfterBlending ==
    [][ (\E k \in 1..Len(E) : E'[k].flow /= E[k].flow \/ E'[k].cost /= E[k].cost)
            => (pc = "update" /\ pc' = "loop") ]_vars

\* C2 witness: the blending loop is at the second OD pair of a later iteration,
\* and an edge carries an auxiliary flow that is not yet its flow.
C2_Witness ==
    /\ pc = "blend" /\ odi = 2 /\ n >= 2
    /\ \E k \in 1..Len(E) : E[k].aux_flow /= E[k].flow /\ E[k].flow /= R(0)

\* C3: every route flow in the table, every auxiliary flow and every flow of
\* an edge is >= 0 in every state of the run.
C3_FlowsNonNegative ==
    /\ \A k \in 1..Len(od_routes_flow) : \A i \in 1..Len(od_routes_flow[k]) :
           RLe(R(0), od_routes_flow[k][i].flow)
    /\ \A k \in 1..Len(E) : RLe(R(0), E[k].aux_flow) /\ RLe(R(0), E[k].flow)

\* C3 witness: in a third iteration a route that is not the best one has been
\* blended to a flow strictly between 0 and the demand.
C3_Witness ==
    /\ n >= 3 /\ pc = "update"
    /\ \E k \in 1..Len(od_routes_flow) : \E i \in 1..Len(od_routes_flow[k]) :
           /\ od_routes_flow[k][i].route_str /= min_routes[k].route_str
           /\ RLt(R(0), od_routes_flow[k][i].flow)
           /\ RLt(od_routes_flow[k][i].flow, OD_matrix[k].demand)

\* C4: the routes of an OD pair only grow: every step keeps each entry of the
\* table, with its identity and its edge sequence, adds at most one entry, and
\* an OD pair has at most one route per iteration begun.
C4_RoutesOnlyGrow ==
    /\ [](\A k \in 1..Len(od_routes_flow) : Len(od_routes_flow[k]) <= n)
    /\ [][ \A k \in 1..Len(od_routes_flow) :
             /\ Len(od_routes_flow'[k]) >= Len(od_routes_flow[k])
             /\ Len(od_routes_flow'[k]) <= Len(od_routes_flow[k]) + 1
             /\ \A i \in 1..Len(od_routes_flow[k]) :
                    /\ od_routes_flow'[k][i].route_str = od_routes_flow[k][i].route_str
                    /\ od_routes_flow'[k][i].route = od_routes_flow[k][i].route ]_vars

\* C4 witness: a second route has been added to an OD pair whose first route
\* is still in the table with a flow below the demand.
C4_Witness ==
    \E k \in 1..Len(od_routes_flow) :
        /\ Len(od_routes_flow[k]) = 2
        /\ RLt(od_routes_flow[k][1].flow, OD_matrix[k].demand)
        /\ n >= 3

\* C5: after every completed iteration the flows of the routes of an OD pair
\* sum to its demand; on the network of one edge the flow of the route and
\* the flow of the edge are the demand.
C5_RouteFlowsSumToDemand ==
    (n >= 1 /\ pc \in {"loop", "done"}) =>
        /\ \A k \in 1..Len(OD_matrix) : FlowSum(od_routes_flow[k], 1) = OD_matrix[k].demand
        /\ (Len(E) = 1 /\ Len(OD_matrix) = 1) =>
               /\ Len(od_routes_flow[1]) = 1
               /\ od_routes_flow[1][1].flow = OD_matrix[1].demand
               /\ E[1].flow = OD_matrix[1].demand

\* C5 witness: three iterations are complete and an OD pair of positive demand
\* has two routes, each with a positive flow.
C5_Witness ==
    /\ n >= 3 /\ pc = "loop"
    /\ \E k \in 1..Len(OD_matrix) :
           /\ Len(od_routes_flow[k]) = 2
           /\ RLt(R(0), od_routes_flow[k][1].flow)
           /\ RLt(R(0), od_routes_flow[k][2].flow)

\* C6: when the demands sum to zero, the evaluation ends with the explicit
\* "no demand" condition, not with a division fault or an undefined value.
C6_NoDemandIsReported ==
    (Evaluated /\ TotalDemand(OD_matrix, 1) = R(0)) => outcome = "NoDemand"

\* C7 as stated: on the network of two parallel routes with strictly increasing
\* costs, the Average Excess Cost after n iterations is never greater than the
\* one after n - 1 iterations.
C7_AECNeverIncreases ==
    (ParallelIncreasing /\ pc = "loop" /\ n >= 2) =>
        RLe(AECOf(E, od_routes_flow),
            AECOf(StateAfter(n - 1).E, StateAfter(n - 1).tables))

\* C7 amended: on that network with costs a + b*f, the Average Excess Cost after
\* n iterations is 0 for n = 1, never negative, and at most
\* (sum of the slopes b) * demand / n + 0.01; the value evaluate_assignment
\* writes obeys the bound for n = its.
C7_AECWithinEnvelope ==
    /\ (ParallelIncreasing /\ pc = "loop" /\ n >= 1) =>
           /\ WithinEnvelope(AECOf(E, od_routes_flow), n)
           /\ n = 1 => AECOf(E, od_routes_flow) = R(0)
    /\ (ParallelIncreasing /\ outcome = "returned") =>
           WithinEnvelope(report[1].AEC, its)

\* C7 witness: after three iterations both routes carry flow at different
\* costs, so that the Average Excess Cost is positive.
C7_Witness ==
    /\ ParallelIncreasing /\ pc = "loop" /\ n = 3
    /\ Len(od_routes_flow[1]) = 2
    /\ RLt(R(0), AECOf(E, od_routes_flow))

\* C8: with constant costs, one OD pair of positive demand and one iteration,
\* the returned table holds exactly one route, a cheapest path from origin to
\* destination, with the whole demand as its flow, and UE is its cost.
C8_OneIterationCheapestRoute ==
    (ConstantCosts /\ Len(OD_matrix) = 1 /\ RLt(R(0), OD_matrix[1].demand)
        /\ its = 1 /\ outcome = "returned") =>
        /\ Len(od_routes_flow[1]) = 1
        /\ IsPath(od_routes_flow[1][1].route, OD_matrix[1].o, OD_matrix[1].d)
        /\ IsMinCost(RouteCost(E, od_routes_flow[1][1].route, 1),
                     OD_matrix[1].o, OD_matrix[1].d)
        /\ od_routes_flow[1][1].flow = OD_matrix[1].demand
        /\ returned = <<RouteCost(E, od_routes_flow[1][1].route, 1)>>

\* C9: with output False and a positive total demand, the evaluation returns
\* UE, the value it returns with output True, and touches no results file.
C9_OutputOffStillReturns ==
    (~output /\ Evaluated /\ RLt(R(0), TotalDemand(OD_matrix, 1))) =>
        /\ outcome = "returned"
        /\ fh = "unbound"
        /\ returned = <<RDiv(Accumulate(E, od_routes_flow, OD_matrix, 1).sum_tt,
                             TotalDemand(OD_matrix, 1))>>

\* C10: for an OD pair whose destination is reached from its origin, on costs
\* that are not negative, the route getPathAsEdges makes of dijkstra's path is
\* a path of edges from origin to destination without a repeated node, its
\* cost is the least cost of such a path, and it is the distance label that
\* dijkstra gave the destination.
C10_RouteIsCheapestPath ==
    \A k \in 1..Len(OD_matrix) :
        LET o == OD_matrix[k].o
            d == OD_matrix[k].d
        IN  ((\A e \in 1..Len(E) : RLe(R(0), E[e].cost))
                /\ NodeNamed(N, d) /= None /\ Connected(o, d)) =>
            LET route == getPathAsEdges(N, dijkstra(N, E, o, d, {}), E)
                label == Labels(N, E, o, d, {}).dist[NodeNamed(N, d)]
            IN  /\ IsPath(route, o, d)
                /\ IsMinCost(RouteCost(E, route, 1), o, d)
                /\ RouteCost(E, route, 1) = label

\* The step-by-step run and RunIteration agree between iterations.
StepsAgreeWithRunIteration ==
    (pc = "loop" /\ \A k \in 1..Len(OD_matrix) : Connected(OD_matrix[k].o, OD_matrix[k].d)) =>
        StateAfter(n) = [E |-> E, tables |-> od_routes_flow]

=============================================================================
